---- MODULE Spec2Model ----
(***************************************************************************)
(* Model of src/c++/examples/simple_grpc_async_infer_client.cc: the main   *)
(* thread submits repeat_cnt requests through AsyncInfer, waits on the     *)
(* condition variable cv until done_cnt >= repeat_cnt, submits one more    *)
(* (deferred) request whose callback hands its result to the main thread   *)
(* through result_placeholder, waits for callback_invoked and reads the    *)
(* result.  The callbacks run on threads of the gRPC client library (the   *)
(* transport), which is not part of the repository: it is the environment  *)
(* of the model.  It accepts or rejects a request, and invokes the         *)
(* callback of an accepted request with a result whose request status is   *)
(* OK or a failure.                                                        *)
(*                                                                         *)
(* Three smaller parts follow the claims about the callbacks: the -H       *)
(* option of both clients (SpecOpts), the run loop of the sync client      *)
(* src/c++/examples/simple_grpc_infer_client.cc (SpecSync), and the        *)
(* lifetime of the buffers of the async client's input tensors             *)
(* (SpecInputs).                                                           *)
(***************************************************************************)
EXTENDS Integers, Sequences, FiniteSets, TLC

\* ---------------------------------------------------------------- bounds
\* repeat_cnt is 1 in the source (line 419); the loop and the wait are written
\* for any value, and the model runs them for 1..MaxRepeat.
MaxRepeat == 2
\* The largest number of second (and later) completions of already completed
\* requests the transport makes in SpecDup.
MaxDup == 1

\* ---------------------------------------------------------------- values
Requests == 0..MaxRepeat
\* A callback invocation: <<request, number of the completion of that request>>.
Threads == Requests \X (1..(1 + MaxDup))
Free == <<-1, 0>>
MainThread == <<-2, 0>>
\* An InferResult handed to a callback: the invocation it was made for and
\* whether its RequestStatus() is OK.  NoResult is the empty shared_ptr.
Results == [id : Threads, ok : BOOLEAN]
NoResult == [id |-> Free, ok |-> FALSE]

VARIABLES
  repeat_cnt,          \* line 419
  i,                   \* line 421: the loop counter, the requests submitted so far
  done_cnt,            \* line 420
  callback_invoked,    \* line 466
  result_placeholder,  \* line 467
  mtx,                 \* line 417: the thread that holds the mutex, or Free
  pc,                  \* the main thread's position; "w1_blocked"/"w2_blocked": waiting on cv
  status,              \* the process: "running", "0" (return 0), "1" (exit(1)), "crash"
  out,                 \* what the main thread has written to std::cout, in order
  err,                 \* the messages written to std::cerr
  inflight,            \* requests the transport has accepted and not yet completed
  deliveries,          \* per request: how many times its callback has been invoked
  cb_pc,               \* per callback invocation: its position
  result_ptr,          \* per callback invocation: its local shared_ptr (lines 426, 472)
  tmp,                 \* per callback invocation: the value done_cnt++ has loaded
  called,              \* per request: the "Callback no. i is called" lines printed
  freed,               \* per result: how many times it has been deleted
  outcome,             \* per callback invocation: the request status it was given
  initialised          \* the shared objects main has declared and initialised so far

\* The command line of either client, as its getopt loop sees the -H options.
VARIABLES
  client,              \* the program: "async" or "sync" (simple_grpc_infer_client.cc)
  argv,                \* the arguments of the -H options, in order
  optind,              \* the -H option the loop handles next
  http_headers,        \* tc::Headers, a map: the set of <<header, value>> entries
  opt_status           \* "parsing", "done", "usage" (Usage: exit(1)), "terminate"

\* The sync client (simple_grpc_infer_client.cc), lines 227-376.
VARIABLES
  test_use_cached_channel,  \* line 189: -c was given
  run,                 \* line 229: the loop counter i, the runs completed
  s_pc,                \* the sync client's position
  results,             \* line 299: what Infer returned: shape, datatype, byte size per output
  output0_data,        \* line 313: the elements of OUTPUT0 the loop has read
  output1_data,        \* line 325: the elements of OUTPUT1 the loop has read
  s_status,            \* the process: "running", "0" (return 0), "1" (exit(1))
  s_err,               \* the message written to std::cerr before exit(1)
  s_out                \* the "PASS : Infer" lines written to std::cout

\* The buffers the input tensors point into (lines 205-392).
VARIABLES
  alive,               \* the std::vector buffers whose lifetime has not ended
  attached             \* AppendRaw: <<tensor, buffer>>, the tensor keeps a pointer

asyncvars == <<repeat_cnt, i, done_cnt, callback_invoked, result_placeholder, mtx, pc,
               status, out, err, inflight, deliveries, cb_pc, result_ptr, tmp, called,
               freed, outcome, initialised>>
optvars == <<client, argv, optind, http_headers, opt_status>>
syncvars == <<test_use_cached_channel, run, s_pc, results, output0_data,
              output1_data, s_status, s_err, s_out>>
bufvars == <<alive, attached>>
vars == <<asyncvars, optvars, syncvars, bufvars>>

\* The deferred request (lines 468-482) gets the id after the first batch's.
Deferred == repeat_cnt
Batch == 0..(repeat_cnt - 1)
IsBatch(t) == t[1] \in Batch
IsDeferred(t) == t[1] = Deferred

\* ------------------------------------------------------- pure operators
\* std::lock_guard / std::unique_lock on mtx: acquirable when nobody holds it.
CanLockBroken(m) == TRUE
CanLock(m) == m = Free

\* done_cnt++ (line 430), the stored value from the loaded one.
IncDoneLost(v) == v
IncDone(v) == v + 1

\* The predicate of the first wait (lines 448-454).
WaitPred1OffByOne(d, n) == d + 1 >= n
WaitPred1Strict(d, n) == d > n
WaitPred1GivesUp(d, n) == TRUE
WaitPred1(d, n) == d >= n

\* The predicate of the second wait (line 487).
WaitPred2Always(ci) == TRUE
WaitPred2(ci) == ci

\* cv.notify_all (lines 439, 479) on the waiter: a thread blocked in cv.wait
\* leaves the wait set and goes on to reacquire mtx.
NotifiedLost(p) == p
Notified(p) ==
  IF p = "w1_blocked" THEN "w1_lock"
  ELSE IF p = "w2_blocked" THEN "w2_lock"
  ELSE p

\* The comparison after the first wait (line 456).
DoneMatchesOffByOne(d, n) == d = n + 1
DoneMatches(d, n) == d = n

Running == status = "running"

\* ----------------------------------------------------------------- Init
\* Lines 417-420 and the transport's and the callbacks' state before any request.
Declared ==
  /\ repeat_cnt \in 1..MaxRepeat
  /\ i = 0
  /\ done_cnt = 0
  /\ callback_invoked = FALSE
  /\ result_placeholder = NoResult
  /\ mtx = Free
  /\ status = "running"
  /\ out = <<>>
  /\ err = {}
  /\ inflight = {}
  /\ deliveries = [r \in Requests |-> 0]
  /\ cb_pc = [t \in Threads |-> "idle"]
  /\ result_ptr = [t \in Threads |-> NoResult]
  /\ tmp = [t \in Threads |-> 0]
  /\ called = [r \in Requests |-> 0]
  /\ freed = [t \in Threads |-> 0]
  /\ outcome = [t \in Threads |-> "none"]
  /\ initialised = {"mtx", "cv", "repeat_cnt", "done_cnt"}

\* The command line has been parsed (lines 161-185): no -H option was given.
OptsParsed ==
  /\ client = "async"
  /\ argv = <<>>
  /\ optind = 1
  /\ http_headers = {}
  /\ opt_status = "done"

\* The sync client is another program: it is not running.
Outputs == {"OUTPUT0", "OUTPUT1"}
NoResults ==
  [shape |-> [n \in Outputs |-> <<>>], datatype |-> [n \in Outputs |-> ""],
   byte_size |-> [n \in Outputs |-> 0]]
SyncOff ==
  /\ test_use_cached_channel = FALSE
  /\ run = 0
  /\ s_pc = "off"
  /\ results = NoResults
  /\ output0_data = <<>>
  /\ output1_data = <<>>
  /\ s_status = "running"
  /\ s_err = ""
  /\ s_out = <<>>

\* The input tensors in the order of their blocks (lines 280-392): the name
\* given to InferInput::Create, the vector handed to AppendRaw, and whether
\* that vector is declared inside the tensor's block.
Tensors ==
  <<[name |-> "input_ids", buffer |-> "input0_data", local |-> FALSE],
    [name |-> "input_lengths", buffer |-> "input_lengths_data", local |-> TRUE],
    [name |-> "request_output_len", buffer |-> "request_output_len_data",
     local |-> TRUE],
    [name |-> "end_id", buffer |-> "end_id_data", local |-> TRUE],
    [name |-> "pad_id", buffer |-> "pad_id_data", local |-> TRUE],
    [name |-> "beam_width", buffer |-> "beam_width_data", local |-> TRUE],
    [name |-> "temperature", buffer |-> "temperature_data", local |-> TRUE]>>
\* Line 412: the tensors of the vector given to AsyncInfer.
InputsVector ==
  {"input_ids", "input_lengths", "request_output_len", "end_id", "pad_id"}
\* The state of the buffers at line 412, after the last block has ended:
\* only input0_data, declared in main's own scope (line 205), is alive.
InputsBuilt ==
  /\ alive = {"input0_data"}
  /\ attached = {<<Tensors[n].name, Tensors[n].buffer>> : n \in 1..Len(Tensors)}

\* The state at line 421, before the submission loop.
Init ==
  /\ Declared
  /\ pc = "submit"
  /\ OptsParsed
  /\ SyncOff
  /\ InputsBuilt

\* ---------------------------------------------------------- main thread
\* Lines 421-443: one iteration of the submission loop, or its end.
Submit ==
  /\ Running /\ pc = "submit"
  /\ \/ /\ i < repeat_cnt
        /\ inflight' = inflight \cup {i}
        /\ i' = i + 1
        /\ UNCHANGED <<pc, status, err>>
     \/ /\ i < repeat_cnt          \* AsyncInfer returns an error: FAIL_IF_ERR
        /\ err' = err \cup {"unable to run model"}
        /\ status' = "1"
        /\ UNCHANGED <<pc, i, inflight>>
     \/ /\ i >= repeat_cnt
        /\ pc' = "w1_lock"
        /\ UNCHANGED <<i, inflight, status, err>>
  /\ UNCHANGED <<repeat_cnt, done_cnt, callback_invoked, result_placeholder, mtx,
                 out, deliveries, cb_pc, result_ptr, tmp, called, freed,
                 outcome, initialised, optvars, syncvars, bufvars>>

\* Line 447, and cv.wait reacquiring the mutex after a wakeup.
Wait1Lock ==
  /\ Running /\ pc = "w1_lock"
  /\ CanLock(mtx)
  /\ mtx' = MainThread
  /\ pc' = "w1_pred"
  /\ UNCHANGED <<repeat_cnt, i, done_cnt, callback_invoked, result_placeholder,
                 status, out, err, inflight, deliveries, cb_pc, result_ptr, tmp,
                 called, freed, outcome, initialised, optvars, syncvars,
                 bufvars>>

\* Lines 448-454: cv.wait evaluates the predicate with the mutex held; when it
\* is false the mutex is released and the thread blocks, in one atomic step.
Wait1Pred ==
  /\ Running /\ pc = "w1_pred"
  /\ IF WaitPred1(done_cnt, repeat_cnt)
       THEN /\ pc' = "w1_unlock"
            /\ UNCHANGED mtx
       ELSE /\ pc' = "w1_blocked"
            /\ mtx' = Free
  /\ UNCHANGED <<repeat_cnt, i, done_cnt, callback_invoked, result_placeholder,
                 status, out, err, inflight, deliveries, cb_pc, result_ptr, tmp,
                 called, freed, outcome, initialised, optvars, syncvars,
                 bufvars>>

\* Line 455: the unique_lock goes out of scope.
Wait1Unlock ==
  /\ Running /\ pc = "w1_unlock"
  /\ mtx' = Free
  /\ pc' = "check"
  /\ UNCHANGED <<repeat_cnt, i, done_cnt, callback_invoked, result_placeholder,
                 status, out, err, inflight, deliveries, cb_pc, result_ptr, tmp,
                 called, freed, outcome, initialised, optvars, syncvars,
                 bufvars>>

\* Lines 456-462: done_cnt is read without the mutex.
CheckDone ==
  /\ Running /\ pc = "check"
  /\ IF DoneMatches(done_cnt, repeat_cnt)
       THEN /\ out' = Append(out, "All done")
            /\ pc' = "submit_deferred"
            /\ UNCHANGED <<status, err>>
       ELSE /\ err' = err \cup {"Done cnt does not match repeat cnt"}
            /\ status' = "1"
            /\ UNCHANGED <<pc, out>>
  /\ UNCHANGED <<repeat_cnt, i, done_cnt, callback_invoked, result_placeholder,
                 mtx, inflight, deliveries, cb_pc, result_ptr, tmp, called, freed,
                 outcome, initialised, optvars, syncvars, bufvars>>

\* The deferred submission with the flag declared without its initialiser
\* (bool callback_invoked;).
SubmitDeferredLate ==
  /\ Running /\ pc = "submit_deferred"
  /\ callback_invoked' \in BOOLEAN
  /\ result_placeholder' = NoResult
  /\ initialised' = initialised \cup {"result_placeholder"}
  /\ \/ /\ inflight' = inflight \cup {Deferred}
        /\ pc' = "w2_lock"
        /\ UNCHANGED <<status, err>>
     \/ /\ err' = err \cup {"unable to run model"}
        /\ status' = "1"
        /\ UNCHANGED <<pc, inflight>>
  /\ UNCHANGED <<repeat_cnt, i, done_cnt, mtx, out, deliveries, cb_pc, result_ptr,
                 tmp, called, freed, outcome, optvars, syncvars, bufvars>>

\* Lines 466-482: the flag and the slot are initialised, then the deferred
\* request is submitted.
SubmitDeferred ==
  /\ Running /\ pc = "submit_deferred"
  /\ callback_invoked' = FALSE
  /\ result_placeholder' = NoResult
  /\ initialised' = initialised \cup {"callback_invoked", "result_placeholder"}
  /\ \/ /\ inflight' = inflight \cup {Deferred}
        /\ pc' = "w2_lock"
        /\ UNCHANGED <<status, err>>
     \/ /\ err' = err \cup {"unable to run model"}
        /\ status' = "1"
        /\ UNCHANGED <<pc, inflight>>
  /\ UNCHANGED <<repeat_cnt, i, done_cnt, mtx, out, deliveries, cb_pc, result_ptr,
                 tmp, called, freed, outcome, optvars, syncvars, bufvars>>

\* Line 486, and cv.wait reacquiring the mutex after a wakeup.
Wait2Lock ==
  /\ Running /\ pc = "w2_lock"
  /\ CanLock(mtx)
  /\ mtx' = MainThread
  /\ pc' = "w2_pred"
  /\ UNCHANGED <<repeat_cnt, i, done_cnt, callback_invoked, result_placeholder,
                 status, out, err, inflight, deliveries, cb_pc, result_ptr, tmp,
                 called, freed, outcome, initialised, optvars, syncvars,
                 bufvars>>

\* Line 487.
Wait2Pred ==
  /\ Running /\ pc = "w2_pred"
  /\ IF WaitPred2(callback_invoked)
       THEN /\ pc' = "w2_unlock"
            /\ UNCHANGED mtx
       ELSE /\ pc' = "w2_blocked"
            /\ mtx' = Free
  /\ UNCHANGED <<repeat_cnt, i, done_cnt, callback_invoked, result_placeholder,
                 status, out, err, inflight, deliveries, cb_pc, result_ptr, tmp,
                 called, freed, outcome, initialised, optvars, syncvars,
                 bufvars>>

\* Line 488.
Wait2Unlock ==
  /\ Running /\ pc = "w2_unlock"
  /\ mtx' = Free
  /\ pc' = "get_deferred"
  /\ UNCHANGED <<repeat_cnt, i, done_cnt, callback_invoked, result_placeholder,
                 status, out, err, inflight, deliveries, cb_pc, result_ptr, tmp,
                 called, freed, outcome, initialised, optvars, syncvars,
                 bufvars>>

\* The deferred result taken without looking at its request status.
GetDeferredUnchecked ==
  /\ Running /\ pc = "get_deferred"
  /\ out' = Append(out, "Getting results from deferred response")
  /\ pc' = "stats"
  /\ UNCHANGED <<repeat_cnt, i, done_cnt, callback_invoked, result_placeholder,
                 mtx, status, err, inflight, deliveries, cb_pc, result_ptr, tmp,
                 called, freed, outcome, initialised, optvars, syncvars,
                 bufvars>>

\* Lines 491-498: result_placeholder is dereferenced without the mutex.
\* Dereferencing the empty shared_ptr is undefined: the process may crash, or
\* go on as if the status had been OK or a failure.
GetDeferred ==
  /\ Running /\ pc = "get_deferred"
  /\ out' = Append(out, "Getting results from deferred response")
  /\ \/ /\ result_placeholder # NoResult /\ result_placeholder.ok
        /\ pc' = "stats"
        /\ UNCHANGED <<status, err>>
     \/ /\ result_placeholder # NoResult /\ ~result_placeholder.ok
        /\ err' = err \cup {"Inference failed"}
        /\ status' = "1"
        /\ UNCHANGED pc
     \/ /\ result_placeholder = NoResult
        /\ \/ /\ status' = "crash"
              /\ UNCHANGED <<pc, err>>
           \/ /\ pc' = "stats"
              /\ UNCHANGED <<status, err>>
           \/ /\ err' = err \cup {"Inference failed"}
              /\ status' = "1"
              /\ UNCHANGED pc
  /\ UNCHANGED <<repeat_cnt, i, done_cnt, callback_invoked, result_placeholder,
                 mtx, inflight, deliveries, cb_pc, result_ptr, tmp, called, freed,
                 outcome, initialised, optvars, syncvars, bufvars>>

\* Lines 500-514: the statistics and PASS are printed and main returns 0;
\* result_placeholder goes out of scope and deletes the result it owns.
Finish ==
  /\ Running /\ pc = "stats"
  /\ out' = Append(out, "PASS : Async Infer")
  /\ status' = "0"
  /\ pc' = "returned"
  /\ freed' = IF result_placeholder # NoResult
                THEN [freed EXCEPT ![result_placeholder.id] = @ + 1]
                ELSE freed
  /\ UNCHANGED <<repeat_cnt, i, done_cnt, callback_invoked, result_placeholder,
                 mtx, err, inflight, deliveries, cb_pc, result_ptr, tmp, called,
                 outcome, initialised, optvars, syncvars, bufvars>>

\* std::condition_variable::wait may wake without a notification.
SpuriousWakeup ==
  /\ Running /\ pc \in {"w1_blocked", "w2_blocked"}
  /\ pc' = IF pc = "w1_blocked" THEN "w1_lock" ELSE "w2_lock"
  /\ UNCHANGED <<repeat_cnt, i, done_cnt, callback_invoked, result_placeholder,
                 mtx, status, out, err, inflight, deliveries, cb_pc, result_ptr,
                 tmp, called, freed, outcome, initialised, optvars, syncvars,
                 bufvars>>

MainNext ==
  \/ Submit \/ Wait1Lock \/ Wait1Pred \/ Wait1Unlock \/ CheckDone
  \/ SubmitDeferred \/ Wait2Lock \/ Wait2Pred \/ Wait2Unlock \/ GetDeferred
  \/ Finish

\* ------------------------------------------------------------ transport
\* The client library completes an accepted request: it invokes the request's
\* callback on one of its threads with a new InferResult, which the callback
\* takes into result_ptr (lines 426-427, 472-473).
Deliver(r, ok) ==
  /\ Running
  /\ r \in inflight
  /\ deliveries[r] = 0
  /\ inflight' = inflight \ {r}
  /\ deliveries' = [deliveries EXCEPT ![r] = 1]
  /\ cb_pc' = [cb_pc EXCEPT ![<<r, 1>>] = "lock"]
  /\ result_ptr' = [result_ptr EXCEPT ![<<r, 1>>] = [id |-> <<r, 1>>, ok |-> ok]]
  /\ outcome' = [outcome EXCEPT ![<<r, 1>>] = IF ok THEN "ok" ELSE "failed"]
  /\ UNCHANGED <<repeat_cnt, i, done_cnt, callback_invoked, result_placeholder,
                 mtx, pc, status, out, err, tmp, called, freed, initialised,
                 optvars, syncvars, bufvars>>

Dups == Cardinality({t \in Threads : t[2] > 1 /\ cb_pc[t] # "idle"})

\* A transport that breaks its contract: it completes a request it has
\* already completed, invoking the same callback again with another result.
DeliverAgain(r, ok) ==
  /\ Running
  /\ deliveries[r] >= 1
  /\ Dups < MaxDup
  /\ LET t == <<r, deliveries[r] + 1>> IN
       /\ cb_pc' = [cb_pc EXCEPT ![t] = "lock"]
       /\ result_ptr' = [result_ptr EXCEPT ![t] = [id |-> t, ok |-> ok]]
       /\ outcome' = [outcome EXCEPT ![t] = IF ok THEN "ok" ELSE "failed"]
  /\ deliveries' = [deliveries EXCEPT ![r] = @ + 1]
  /\ UNCHANGED <<repeat_cnt, i, done_cnt, callback_invoked, result_placeholder,
                 mtx, pc, status, out, err, inflight, tmp, called, freed,
                 initialised, optvars, syncvars, bufvars>>

\* ------------------------------------- callback of a first-batch request
\* Lines 428-429: the lock_guard takes mtx, then the callback prints its line.
CbLock(t) ==
  /\ Running /\ IsBatch(t) /\ cb_pc[t] = "lock"
  /\ CanLock(mtx)
  /\ mtx' = t
  /\ called' = [called EXCEPT ![t[1]] = @ + 1]
  /\ cb_pc' = [cb_pc EXCEPT ![t] = "load"]
  /\ UNCHANGED <<repeat_cnt, i, done_cnt, callback_invoked, result_placeholder,
                 pc, status, out, err, inflight, deliveries, result_ptr, tmp,
                 freed, outcome, initialised, optvars, syncvars, bufvars>>

\* Line 430, done_cnt++ : the load ...
CbLoad(t) ==
  /\ Running /\ IsBatch(t) /\ cb_pc[t] = "load"
  /\ tmp' = [tmp EXCEPT ![t] = done_cnt]
  /\ cb_pc' = [cb_pc EXCEPT ![t] = "store"]
  /\ UNCHANGED <<repeat_cnt, i, done_cnt, callback_invoked, result_placeholder,
                 mtx, pc, status, out, err, inflight, deliveries, result_ptr,
                 called, freed, outcome, initialised, optvars, syncvars,
                 bufvars>>

\* ... and the store; the loaded value is dead afterwards.
CbStore(t) ==
  /\ Running /\ IsBatch(t) /\ cb_pc[t] = "store"
  /\ done_cnt' = IncDone(tmp[t])
  /\ tmp' = [tmp EXCEPT ![t] = 0]
  /\ cb_pc' = [cb_pc EXCEPT ![t] = "status"]
  /\ UNCHANGED <<repeat_cnt, i, callback_invoked, result_placeholder, mtx, pc,
                 status, out, err, inflight, deliveries, result_ptr, called,
                 freed, outcome, initialised, optvars, syncvars, bufvars>>

\* A callback that answers a failed request status by submitting the request
\* again instead of ending the process.
CbStatusRetry(t) ==
  /\ Running /\ IsBatch(t) /\ cb_pc[t] = "status"
  /\ inflight' = IF result_ptr[t].ok THEN inflight ELSE inflight \cup {t[1]}
  /\ cb_pc' = [cb_pc EXCEPT ![t] = "unlock"]
  /\ UNCHANGED <<repeat_cnt, i, done_cnt, callback_invoked, result_placeholder,
                 mtx, pc, status, out, err, deliveries, result_ptr, tmp, called,
                 freed, outcome, initialised, optvars, syncvars, bufvars>>

\* Lines 431-437: a failed request status ends the process, mtx still held.
CbStatus(t) ==
  /\ Running /\ IsBatch(t) /\ cb_pc[t] = "status"
  /\ IF result_ptr[t].ok
       THEN /\ cb_pc' = [cb_pc EXCEPT ![t] = "unlock"]
            /\ UNCHANGED <<status, err>>
       ELSE /\ err' = err \cup {"Inference failed"}
            /\ status' = "1"
            /\ UNCHANGED cb_pc
  /\ UNCHANGED <<repeat_cnt, i, done_cnt, callback_invoked, result_placeholder,
                 mtx, pc, out, inflight, deliveries, result_ptr, tmp, called,
                 freed, outcome, initialised, optvars, syncvars, bufvars>>

\* Line 438: the block ends; lk releases mtx, then result_ptr deletes the
\* result it owns.
CbUnlock(t) ==
  /\ Running /\ IsBatch(t) /\ cb_pc[t] = "unlock"
  /\ mtx' = Free
  /\ freed' = [freed EXCEPT ![result_ptr[t].id] = @ + 1]
  /\ result_ptr' = [result_ptr EXCEPT ![t] = NoResult]
  /\ cb_pc' = [cb_pc EXCEPT ![t] = "notify"]
  /\ UNCHANGED <<repeat_cnt, i, done_cnt, callback_invoked, result_placeholder,
                 pc, status, out, err, inflight, deliveries, tmp, called,
                 outcome, initialised, optvars, syncvars, bufvars>>

\* Line 439: cv.notify_all(), with mtx released.
CbNotify(t) ==
  /\ Running /\ IsBatch(t) /\ cb_pc[t] = "notify"
  /\ pc' = Notified(pc)
  /\ cb_pc' = [cb_pc EXCEPT ![t] = "done"]
  /\ UNCHANGED <<repeat_cnt, i, done_cnt, callback_invoked, result_placeholder,
                 mtx, status, out, err, inflight, deliveries, result_ptr, tmp,
                 called, freed, outcome, initialised, optvars, syncvars,
                 bufvars>>

\* ------------------------------------- callback of the deferred request
\* Line 475.
DLock(t) ==
  /\ Running /\ IsDeferred(t) /\ cb_pc[t] = "lock"
  /\ CanLock(mtx)
  /\ mtx' = t
  /\ cb_pc' = [cb_pc EXCEPT ![t] = "setflag"]
  /\ UNCHANGED <<repeat_cnt, i, done_cnt, callback_invoked, result_placeholder,
                 pc, status, out, err, inflight, deliveries, result_ptr, tmp,
                 called, freed, outcome, initialised, optvars, syncvars,
                 bufvars>>

\* Line 476 as it would be if the deferred callback also counted itself in
\* done_cnt.
DSetFlagCounting(t) ==
  /\ Running /\ IsDeferred(t) /\ cb_pc[t] = "setflag"
  /\ callback_invoked' = TRUE
  /\ done_cnt' = done_cnt + 1
  /\ cb_pc' = [cb_pc EXCEPT ![t] = "move"]
  /\ UNCHANGED <<repeat_cnt, i, result_placeholder, mtx, pc, status, out, err,
                 inflight, deliveries, result_ptr, tmp, called, freed, outcome,
                 initialised, optvars, syncvars, bufvars>>

\* Line 476 as it would be if the lock_guard's block ended right after it.
DSetFlagEarlyUnlock(t) ==
  /\ Running /\ IsDeferred(t) /\ cb_pc[t] = "setflag"
  /\ callback_invoked' = TRUE
  /\ mtx' = Free
  /\ cb_pc' = [cb_pc EXCEPT ![t] = "move"]
  /\ UNCHANGED <<repeat_cnt, i, done_cnt, result_placeholder, pc, status, out,
                 err, inflight, deliveries, result_ptr, tmp, called, freed,
                 outcome, initialised, optvars, syncvars, bufvars>>

\* Line 476.
DSetFlag(t) ==
  /\ Running /\ IsDeferred(t) /\ cb_pc[t] = "setflag"
  /\ callback_invoked' = TRUE
  /\ cb_pc' = [cb_pc EXCEPT ![t] = "move"]
  /\ UNCHANGED <<repeat_cnt, i, done_cnt, result_placeholder, mtx, pc, status,
                 out, err, inflight, deliveries, result_ptr, tmp, called, freed,
                 outcome, initialised, optvars, syncvars, bufvars>>

\* Line 477: the move assignment leaves result_ptr empty and deletes the
\* result the slot owned before, if any.
DMove(t) ==
  /\ Running /\ IsDeferred(t) /\ cb_pc[t] = "move"
  /\ result_placeholder' = result_ptr[t]
  /\ result_ptr' = [result_ptr EXCEPT ![t] = NoResult]
  /\ freed' = IF result_placeholder # NoResult
                THEN [freed EXCEPT ![result_placeholder.id] = @ + 1]
                ELSE freed
  /\ cb_pc' = [cb_pc EXCEPT ![t] = "unlock"]
  /\ UNCHANGED <<repeat_cnt, i, done_cnt, callback_invoked, mtx, pc, status,
                 out, err, inflight, deliveries, tmp, called, outcome,
                 initialised, optvars, syncvars, bufvars>>

\* Line 478: lk releases mtx; result_ptr is empty and deletes nothing.
DUnlock(t) ==
  /\ Running /\ IsDeferred(t) /\ cb_pc[t] = "unlock"
  /\ mtx' = Free
  /\ cb_pc' = [cb_pc EXCEPT ![t] = "notify"]
  /\ UNCHANGED <<repeat_cnt, i, done_cnt, callback_invoked, result_placeholder,
                 pc, status, out, err, inflight, deliveries, result_ptr, tmp,
                 called, freed, outcome, initialised, optvars, syncvars,
                 bufvars>>

\* Line 479.
DNotify(t) ==
  /\ Running /\ IsDeferred(t) /\ cb_pc[t] = "notify"
  /\ pc' = Notified(pc)
  /\ cb_pc' = [cb_pc EXCEPT ![t] = "done"]
  /\ UNCHANGED <<repeat_cnt, i, done_cnt, callback_invoked, result_placeholder,
                 mtx, status, out, err, inflight, deliveries, result_ptr, tmp,
                 called, freed, outcome, initialised, optvars, syncvars,
                 bufvars>>

CbNext(t) ==
  \/ CbLock(t) \/ CbLoad(t) \/ CbStore(t) \/ CbStatus(t) \/ CbUnlock(t)
  \/ CbNotify(t)
  \/ DLock(t) \/ DSetFlag(t) \/ DMove(t) \/ DUnlock(t) \/ DNotify(t)

\* ------------------------------------------------------- specifications
Next ==
  \/ MainNext
  \/ SpuriousWakeup
  \/ \E r \in Requests, ok \in BOOLEAN : Deliver(r, ok)
  \/ \E t \in Threads : CbNext(t)

\* The transport keeps its contract: one completion per accepted request.
Spec == Init /\ [][Next]_vars

NextDup ==
  \/ Next
  \/ \E r \in Requests, ok \in BOOLEAN : DeliverAgain(r, ok)

\* The transport may complete a request more than once.
SpecDup == Init /\ [][NextDup]_vars

\* Every thread that can run does run.  A thread waiting for mtx gets it when
\* it is free again and again (the waiter may retake it after each spurious
\* wakeup).  A thread blocked in cv.wait is owed nothing: a spurious wakeup may
\* happen, none has to.
ThreadFairness ==
  /\ WF_vars(MainNext)
  /\ \A t \in Threads : WF_vars(CbNext(t)) /\ SF_vars(CbLock(t) \/ DLock(t))

\* The threads are scheduled fairly; the transport may leave a request
\* without a completion for ever.
SpecLossy == Init /\ [][Next]_vars /\ ThreadFairness

\* The threads are scheduled fairly and every accepted request is completed.
SpecLive ==
  /\ Init /\ [][Next]_vars /\ ThreadFairness
  /\ \A r \in Requests : WF_vars(\E ok \in BOOLEAN : Deliver(r, ok))

\* ------------------------------------------------- positions and counts
\* The main thread is inside the first wait (lines 446-455): taking mtx,
\* evaluating the predicate, or blocked on cv.
InWait1 == pc \in {"w1_lock", "w1_pred", "w1_blocked"}
\* The first cv.wait has returned.
AfterWait1 ==
  pc \in {"w1_unlock", "check", "submit_deferred", "w2_lock", "w2_pred",
          "w2_blocked", "w2_unlock", "get_deferred", "stats", "returned"}
\* The main thread is inside the second wait (lines 485-488).
InWait2 == pc \in {"w2_lock", "w2_pred", "w2_blocked"}
\* The second cv.wait has returned.
AfterWait2 == pc \in {"w2_unlock", "get_deferred", "stats", "returned"}
\* The requests AsyncInfer has accepted so far.
SubmittedSet ==
  (0..(i - 1)) \cup (IF InWait2 \/ AfterWait2 THEN {Deferred} ELSE {})
\* How many times the callback of request r has been invoked.
Fired(r) == Cardinality({t \in Threads : t[1] = r /\ cb_pc[t] # "idle"})
\* The invocation has done its work on the shared state: the increment of
\* done_cnt (line 430), or the flag and the slot (lines 476-477).
BodyRan(t) ==
  IF IsBatch(t) THEN cb_pc[t] \in {"status", "unlock", "notify", "done"}
  ELSE cb_pc[t] \in {"unlock", "notify", "done"}

\* ---------------------------------------------------------------- claims

C2_WaitReturnsComplete ==
  AfterWait1 => done_cnt >= repeat_cnt /\ i = repeat_cnt /\ done_cnt >= i

C2_Witness == pc = "w1_unlock" /\ repeat_cnt > 1 /\ done_cnt = repeat_cnt

\* C3: no lost wakeup.  When every accepted request is completed, a main
\* thread blocked in the first cv.wait is eventually woken and the wait
\* returns (or a callback has ended the process with exit(1) on a failed
\* request status, which ends the waiter with it).
C3_NoLostWakeup ==
  (pc = "w1_blocked") ~> (AfterWait1 \/ ~Running)

\* The waiter is blocked while a callback has incremented done_cnt to
\* repeat_cnt and released mtx, and has not yet called notify_all.
C3_Witness ==
  /\ pc = "w1_blocked" /\ done_cnt = repeat_cnt /\ mtx = Free
  /\ \E t \in Threads : cb_pc[t] = "notify"

\* The invocations of the callback of request r that have got past the
\* lock_guard (line 428, line 475): the callback body runs.
BodyStarted(r) ==
  Cardinality({t \in Threads : t[1] = r /\ cb_pc[t] \notin {"idle", "lock"}})
\* The invocations of first-batch callbacks that have incremented done_cnt.
Incremented == {t \in Threads : IsBatch(t) /\ BodyRan(t)}
\* Every first-batch request is submitted and its callback has returned.
AllBatchReturned ==
  i = repeat_cnt /\ \A r \in Batch : cb_pc[<<r, 1>>] = "done"

\* C4 as stated: a second completion of a request is stopped by a one-shot
\* guard, so the callback body runs at most once per request and done_cnt
\* counts each request at most once.
C4_SecondCompletionGuarded ==
  /\ \A r \in Requests : BodyStarted(r) <= 1
  /\ done_cnt <= Cardinality({r \in Batch : Fired(r) >= 1})

\* C4 as amended: there is no guard.  Every completion of a first-batch
\* request, a second one included, prints the callback's line and increments
\* done_cnt, so done_cnt is the number of callback invocations that have done
\* the increment; the only check is the comparison after the first wait, which
\* ends the process with exit(1) when done_cnt has already passed repeat_cnt.
C4_EveryCompletionCounted ==
  /\ done_cnt = Cardinality(Incremented)
  /\ \A r \in Batch : called[r] = BodyStarted(r)
  /\ "Done cnt does not match repeat cnt" \in err => done_cnt > repeat_cnt

\* One request completed twice, both invocations counted.
C4_Witness ==
  \E r \in Batch :
    /\ Fired(r) = 2 /\ called[r] = 2
    /\ BodyRan(<<r, 1>>) /\ BodyRan(<<r, 2>>)
    /\ done_cnt > repeat_cnt

\* C5: no increment is lost.  done_cnt never exceeds the number of requests
\* submitted, it equals that number whenever the callback of every submitted
\* request has done its increment, and the number submitted is repeat_cnt
\* once the submission loop is over.
C5_NoLostIncrement ==
  /\ done_cnt <= i
  /\ (\A r \in 0..(i - 1) : BodyRan(<<r, 1>>)) => done_cnt = i
  /\ pc # "submit" => i = repeat_cnt

C5_Witness ==
  /\ repeat_cnt > 1 /\ AllBatchReturned /\ done_cnt = repeat_cnt

\* C6: a first wait that takes mtx or evaluates its predicate after every
\* first-batch callback has returned does not block: its next step is never
\* into the wait set of cv.
C6_NoBlockAfterAllDone ==
  [][(pc \in {"w1_lock", "w1_pred"} /\ AllBatchReturned)
       => pc' \in {"w1_lock", "w1_pred", "w1_unlock"}]_vars

\* The wait starts after the last callback has returned.
C6_Witness ==
  pc = "w1_lock" /\ repeat_cnt > 1 /\ AllBatchReturned

\* A step of a callback invocation that is under way, and a step of the main
\* thread (or its spurious wakeup).
CallbackStep == \E t \in Threads : cb_pc[t] # "idle" /\ cb_pc'[t] # cb_pc[t]
MainStep == cb_pc' = cb_pc /\ vars' # vars

\* C7 as stated: a first wait does not block for ever, it ends (with a
\* timeout error) also when a callback never arrives.
C7_WaitTimesOut ==
  InWait1 ~> (~InWait1 \/ ~Running)

\* C7 as amended: cv.wait has no deadline and there is no timeout error, so a
\* wait on a request whose callback never arrives blocks for ever.  The wait
\* is left only when done_cnt >= repeat_cnt; a request stays in flight until
\* the transport completes it; and once the callbacks have brought done_cnt
\* to repeat_cnt the same wait returns (unless a callback has ended the
\* process).
C7_WaitHasNoDeadline ==
  /\ [][(InWait1 /\ ~InWait1') => (done_cnt >= repeat_cnt /\ AfterWait1')]_vars
  /\ [][\A r \in inflight : r \in inflight' \/ deliveries'[r] = 1]_vars
  /\ (InWait1 /\ done_cnt >= repeat_cnt) ~> (AfterWait1 \/ ~Running)

\* The main thread is blocked while an accepted request has no completion.
C7_Witness ==
  pc = "w1_blocked" /\ inflight # {} /\ done_cnt < repeat_cnt

\* C8: the first wait waits for the repeat_cnt requests submitted before it
\* began and for nothing else.  It returns once their callbacks have done
\* their increments; the deferred request is submitted (and completed) only
\* after this wait has returned; and no step of the deferred request's
\* callback changes done_cnt.
C8_WaitCountsOnlyFirstBatch ==
  /\ [](Deferred \in inflight \/ Fired(Deferred) >= 1 => AfterWait1)
  /\ [][(\E t \in Threads : IsDeferred(t) /\ cb_pc'[t] # cb_pc[t])
          => done_cnt' = done_cnt]_vars
  /\ (InWait1 /\ \A r \in Batch : BodyRan(<<r, 1>>)) ~> (AfterWait1 \/ ~Running)

\* The deferred request has been submitted and completed after the wait.
C8_Witness ==
  /\ AfterWait1 /\ repeat_cnt > 1
  /\ BodyRan(<<Deferred, 1>>) /\ done_cnt = repeat_cnt

\* C9: once the second cv.wait has returned, the deferred request's callback
\* has been invoked and has set the flag and filled the slot:
\* result_placeholder holds the result that callback was given, with the
\* request status it was given, and is not empty.
C9_SlotHoldsResult ==
  AfterWait2 =>
    /\ callback_invoked
    /\ BodyRan(<<Deferred, 1>>)
    /\ result_placeholder # NoResult
    /\ result_placeholder =
         [id |-> <<Deferred, 1>>, ok |-> outcome[<<Deferred, 1>>] = "ok"]

\* The main thread is about to dereference the slot, which holds a failure.
C9_Witness ==
  /\ pc = "get_deferred"
  /\ result_placeholder = [id |-> <<Deferred, 1>>, ok |-> FALSE]

\* C10: done_cnt, callback_invoked and result_placeholder change only in a
\* step of the callback invocation that holds mtx; a callback step changes
\* nothing else of the main thread's data (repeat_cnt, i, its output, the
\* requests it has in flight), and a main thread step changes nothing of a
\* callback invocation's own data.
C10_MutationsUnderMutex ==
  [][/\ (done_cnt' # done_cnt \/ callback_invoked' # callback_invoked
           \/ result_placeholder' # result_placeholder)
          => (mtx \in Threads /\ mtx' = mtx /\ cb_pc'[mtx] # cb_pc[mtx])
     /\ CallbackStep => UNCHANGED <<repeat_cnt, i, out, inflight>>
     /\ MainStep => UNCHANGED <<result_ptr, tmp, called, outcome>>]_vars

\* The deferred callback has written the flag and the slot and still holds mtx.
C10_Witness ==
  \E t \in Threads :
    /\ IsDeferred(t) /\ mtx = t /\ cb_pc[t] = "unlock"
    /\ callback_invoked /\ result_placeholder # NoResult

\* C11 as stated: the handling of a completion (printing, inspecting the
\* request status, ending the process on a failure) runs while the thread
\* that does it does not hold mtx.
C11_HandlingOutsideLock ==
  /\ \A t \in Threads : cb_pc[t] = "status" => mtx # t
  /\ ("Inference failed" \in err /\ status = "1") => mtx \notin Threads

\* C11 as amended: a first-batch callback does all of its handling inside the
\* block of its lock_guard (lines 428-438): it prints its line, increments
\* done_cnt, inspects the request status and, on a failure, prints the error
\* and calls exit(1), all with mtx held, so the process ends with mtx still
\* held by that callback.  Only cv.notify_all runs after the unlock.  The
\* deferred request's callback inspects nothing; its result is handled by the
\* main thread after the second wait, without mtx.
C11_HandlingUnderLock ==
  /\ \A t \in Threads :
       (IsBatch(t) /\ cb_pc[t] \in {"load", "store", "status", "unlock"}) => mtx = t
  /\ \A t \in Threads : cb_pc[t] \in {"notify", "done"} => mtx # t
  /\ \A t \in Threads : IsDeferred(t) => cb_pc[t] # "status"
  /\ pc \in {"check", "get_deferred", "stats", "returned"} => mtx # MainThread
  /\ \A t \in Threads : (cb_pc[t] = "status" /\ outcome[t] = "failed") => mtx = t

\* A callback has ended the process on a failed request while holding mtx.
C11_Witness ==
  \E t \in Threads :
    /\ cb_pc[t] = "status" /\ outcome[t] = "failed" /\ mtx = t
    /\ status = "1" /\ "Inference failed" \in err

\* The requests the transport has accepted: in flight or completed.
Accepted == inflight \cup {r \in Requests : deliveries[r] >= 1}

\* C12: a failed outcome reaches the callback as data, unchanged, and is never
\* retried.  The result a callback (or the slot) holds carries the request
\* status the transport gave; a completed request is never in flight again;
\* the accepted requests are the ones the program's position says it has
\* submitted, at most repeat_cnt + 1, and repeat_cnt + 1 when main returns 0;
\* and a callback that finds a failure has already done its increment, so
\* the failure is counted as that request's completion.
C12_FailureIsDataNoRetry ==
  /\ \A t \in Threads :
       result_ptr[t] # NoResult =>
         result_ptr[t] = [id |-> t, ok |-> outcome[t] = "ok"]
  /\ result_placeholder # NoResult =>
       result_placeholder.ok = (outcome[result_placeholder.id] = "ok")
  /\ \A r \in inflight : deliveries[r] = 0
  /\ Accepted = SubmittedSet
  /\ Cardinality(Accepted) <= repeat_cnt + 1
  /\ status = "0" => Cardinality(Accepted) = repeat_cnt + 1
  /\ \A t \in Threads :
       (IsBatch(t) /\ cb_pc[t] = "status" /\ outcome[t] = "failed") =>
         /\ t \in Incremented /\ done_cnt = Cardinality(Incremented)
         /\ t[1] \notin inflight /\ deliveries[t[1]] = 1

\* The second request of two has failed; its callback has counted it and
\* ended the process, and nothing is in flight.
C12_Witness ==
  /\ repeat_cnt = 2 /\ done_cnt = 2 /\ inflight = {} /\ status = "1"
  /\ cb_pc[<<1, 1>>] = "status" /\ ~result_ptr[<<1, 1>>].ok
  /\ outcome[<<1, 1>>] = "failed"

\* The shared_ptrs that own the result made for invocation t: the callbacks'
\* result_ptr locals and the main thread's result_placeholder, until main
\* returns and the slot goes out of scope.
Owners(t) ==
  Cardinality({u \in Threads : result_ptr[u].id = t})
    + (IF result_placeholder.id = t /\ pc # "returned" THEN 1 ELSE 0)
\* The result has one owner or has been deleted once, never both.
OwnedOrReleased(t) ==
  /\ freed[t] <= 1 /\ Owners(t) <= 1
  /\ outcome[t] # "none" => Owners(t) + freed[t] = 1

\* C13: every result handed to a callback has one owner at each moment, is
\* never deleted twice and never owned after its deletion, and has been
\* deleted once when the process ends, by return 0 or by exit(1) on a failed
\* request status.
C13_ReleasedExactlyOnce ==
  /\ \A t \in Threads : OwnedOrReleased(t)
  /\ (status = "0" \/ (status = "1" /\ "Inference failed" \in err)) =>
       \A t \in Threads : outcome[t] # "none" => freed[t] = 1

\* The shared objects the callback of request r reads or writes (lines
\* 424-440 for the first batch, lines 469-480 for the deferred request).
UsedBy(r) ==
  IF r = Deferred THEN {"mtx", "cv", "callback_invoked", "result_placeholder"}
  ELSE {"mtx", "cv", "done_cnt"}

\* C14: a callback is invoked only for a request whose AsyncInfer call has
\* been made, and everything it reads or writes was initialised before that
\* call: done_cnt is 0 until a first-batch callback has incremented it, and
\* from the deferred submission until the deferred callback writes them
\* callback_invoked is false and result_placeholder is empty.
C14_CallbackAfterInitAndSubmit ==
  /\ \A t \in Threads : cb_pc[t] # "idle" => t[1] \in SubmittedSet
  /\ \A r \in inflight : UsedBy(r) \subseteq initialised
  /\ \A t \in Threads : cb_pc[t] # "idle" => UsedBy(t[1]) \subseteq initialised
  /\ Incremented = {} => done_cnt = 0
  /\ ((InWait2 \/ AfterWait2)
        /\ cb_pc[<<Deferred, 1>>] \in {"idle", "lock", "setflag"}) =>
       ~callback_invoked /\ result_placeholder = NoResult

\* No order between the callbacks of two requests: the callback of the
\* second request has returned while the first request, submitted before it,
\* is still in flight.
C14_Witness ==
  /\ cb_pc[<<1, 1>>] = "done" /\ cb_pc[<<0, 1>>] = "idle"
  /\ 0 \in inflight /\ done_cnt = 1

\* main has printed "PASS : Async Infer", after "All done".
PassPrinted ==
  \E k \in DOMAIN out :
    /\ out[k] = "PASS : Async Infer"
    /\ \E j \in 1..(k - 1) : out[j] = "All done"
\* Every first-batch callback has been invoked once with an OK request
\* status, and the deferred result is OK.
AllOK ==
  /\ \A r \in Batch : called[r] = 1 /\ outcome[<<r, 1>>] = "ok"
  /\ outcome[<<Deferred, 1>>] = "ok" /\ result_placeholder.ok
\* Some request has completed with a failed status; a submission has failed.
AnyFailed == \E t \in Threads : outcome[t] = "failed"
SubmitFailed == "unable to run model" \in err

\* C16: "PASS : Async Infer" is printed, and the process ends with status 0,
\* only if every first-batch callback was invoked with an OK status, "All
\* done" was printed before and the deferred result is OK.  When a request's
\* status is not OK or a submission fails, PASS is never printed and the
\* process ends with status 1.
C16_PassOnlyIfAllOk ==
  /\ []((status = "0" \/ "PASS : Async Infer" \in {out[k] : k \in DOMAIN out})
          => (status = "0" /\ PassPrinted /\ AllOK))
  /\ []((AnyFailed \/ SubmitFailed) => (~PassPrinted /\ status # "0"))
  /\ [](SubmitFailed => status = "1")
  /\ AnyFailed ~> (status = "1")

\* Two first-batch requests and the deferred one are OK and main has returned.
C16_Witness ==
  /\ status = "0" /\ repeat_cnt = 2 /\ AllOK
  /\ out = <<"All done", "Getting results from deferred response",
             "PASS : Async Infer">>

\* A write of done_cnt can still come: a first-batch callback is waiting for
\* mtx or is inside done_cnt++, or a first-batch request is in flight.
DoneCntWritePending ==
  \/ \E t \in Threads : IsBatch(t) /\ cb_pc[t] \in {"lock", "load", "store"}
  \/ inflight \cap Batch # {}
\* A write of callback_invoked or result_placeholder can still come.
SlotWritePending ==
  \/ \E t \in Threads : IsDeferred(t) /\ cb_pc[t] \in {"lock", "setflag", "move"}
  \/ Deferred \in inflight

\* C18: the reads main makes without mtx do not race with a callback's write.
\* When main reads done_cnt (line 456) no write of done_cnt is pending, when
\* it reads result_placeholder (lines 491-498) no write of the slot is
\* pending, and the deferred request is submitted only after every
\* first-batch callback has left its locked section.
C18_UnlockedReadsOrdered ==
  /\ pc = "check" => ~DoneCntWritePending
  /\ pc = "get_deferred" => ~SlotWritePending
  /\ (pc = "submit_deferred" \/ InWait2 \/ AfterWait2) =>
       \A r \in Batch : cb_pc[<<r, 1>>] \in {"notify", "done"}
  /\ AfterWait2 => cb_pc[<<Deferred, 1>>] \in {"notify", "done"}

\* main is at its unlocked read of done_cnt while a callback that has left
\* its locked section has not returned yet.
C18_Witness ==
  /\ pc = "check" /\ repeat_cnt = 2 /\ mtx = Free
  /\ \E t \in Threads : IsBatch(t) /\ cb_pc[t] = "notify"

\* So far the transport has invoked no callback more than once.
AtMostOnce == \A r \in Requests : deliveries[r] <= 1

\* C19: as long as no callback has been invoked more than once, done_cnt is
\* within 0..repeat_cnt, it equals repeat_cnt once the first wait has
\* returned, and the "Done cnt does not match repeat cnt" exit has not been
\* taken; that exit is taken only after some first-batch callback has been
\* invoked twice or more.
C19_DoneCntWithinBounds ==
  /\ AtMostOnce =>
       /\ 0 <= done_cnt /\ done_cnt <= repeat_cnt
       /\ AfterWait1 => done_cnt = repeat_cnt
       /\ "Done cnt does not match repeat cnt" \notin err
  /\ "Done cnt does not match repeat cnt" \in err =>
       /\ \E r \in Batch : deliveries[r] >= 2
       /\ done_cnt > repeat_cnt /\ status = "1"

\* A callback was invoked twice, both invocations incremented done_cnt before
\* main's check, and main has left through the mismatch exit.
C19_Witness ==
  /\ "Done cnt does not match repeat cnt" \in err /\ status = "1"
  /\ pc = "check" /\ ~AtMostOnce /\ done_cnt = repeat_cnt + 1

\* ------------------------------------------------- the -H option (getopt)
\* Both clients take -H <HTTP header>, "Header:Value", any number of times
\* (async client lines 175-180, sync client lines 156-168).  An argument is
\* a std::string, modelled as a sequence of characters.
MaxArgLen == 3
MaxH == 2
Chars == {"x", ":"}
RECURSIVE Strings(_)
Strings(n) ==
  IF n = 0 THEN {<<>>}
  ELSE Strings(n - 1) \cup {Append(s, c) : s \in Strings(n - 1), c \in Chars}
Args == Strings(MaxArgLen)
RECURSIVE ArgLists(_)
ArgLists(n) ==
  IF n = 0 THEN {<<>>}
  ELSE ArgLists(n - 1) \cup {Append(l, a) : l \in ArgLists(n - 1), a \in Args}

\* std::string::npos: larger than the size of any string.
Npos == MaxArgLen + 1
\* std::string::find(":"): the 0-based position of the first ':', or npos.
Find(s) ==
  IF \E k \in 1..Len(s) : s[k] = ":"
    THEN (CHOOSE k \in 1..Len(s) : s[k] = ":" /\ \A j \in 1..(k - 1) : s[j] # ":") - 1
    ELSE Npos
\* std::string::substr(pos, n): throws std::out_of_range when pos > size(),
\* otherwise the characters [pos, pos + min(n, size() - pos)).
OutOfRange == <<"std::out_of_range">>
Substr(s, pos, n) ==
  IF pos > Len(s) THEN OutOfRange
  ELSE SubSeq(s, pos + 1, pos + (IF n < Len(s) - pos THEN n ELSE Len(s) - pos))
\* http_headers[header] = value on a std::map.
MapPut(h, k, v) == {e \in h : e[1] # k} \cup {<<k, v>>}

\* A program that is only parsing its command line.
InitOpts ==
  /\ Declared
  /\ pc = "getopt"
  /\ client \in {"async", "sync"}
  /\ argv \in ArgLists(MaxH)
  /\ optind = 1
  /\ http_headers = {}
  /\ opt_status = "parsing"
  /\ SyncOff
  /\ InputsBuilt

\* Async client, lines 175-180: no check of the argument.  The value is
\* computed before the map is assigned; when substr throws, nothing catches
\* std::out_of_range and std::terminate ends the process.
AsyncOptH ==
  /\ client = "async" /\ opt_status = "parsing" /\ optind <= Len(argv)
  /\ LET arg == argv[optind]
         header == Substr(arg, 0, Find(arg))
         value == Substr(arg, Len(header) + 1, Npos)
     IN IF value = OutOfRange
          THEN /\ opt_status' = "terminate"
               /\ UNCHANGED <<http_headers, optind>>
          ELSE /\ http_headers' = MapPut(http_headers, header, value)
               /\ optind' = optind + 1
               /\ UNCHANGED opt_status
  /\ UNCHANGED <<asyncvars, syncvars, bufvars, client, argv>>

\* Sync client, lines 156-168: an argument without ':' or with an empty
\* header goes to Usage, which prints the usage text and calls exit(1).
SyncOptH ==
  /\ client = "sync" /\ opt_status = "parsing" /\ optind <= Len(argv)
  /\ LET arg == argv[optind]
         header == Substr(arg, 0, Find(arg))
     IN IF Len(header) = Len(arg) \/ header = <<>>
          THEN /\ opt_status' = "usage"
               /\ UNCHANGED <<http_headers, optind>>
          ELSE /\ http_headers' =
                    MapPut(http_headers, header, Substr(arg, Len(header) + 1, Npos))
               /\ optind' = optind + 1
               /\ UNCHANGED opt_status
  /\ UNCHANGED <<asyncvars, syncvars, bufvars, client, argv>>

\* getopt returns -1: the loop ends.
OptEnd ==
  /\ opt_status = "parsing" /\ optind > Len(argv)
  /\ opt_status' = "done"
  /\ UNCHANGED <<asyncvars, syncvars, bufvars, client, argv, optind, http_headers>>

NextOpts == AsyncOptH \/ SyncOptH \/ OptEnd
SpecOpts == InitOpts /\ [][NextOpts]_vars

\* What the usage text asks of a -H argument, 'Header:Value': a ':' and a
\* header before it; the header is the text before the first ':', the value
\* the text after it.
HasColon(arg) == \E k \in 1..Len(arg) : arg[k] = ":"
FirstColon(arg) == CHOOSE k \in 1..Len(arg) : arg[k] = ":" /\ \A j \in 1..(k - 1) : arg[j] # ":"
HeaderName(arg) == SubSeq(arg, 1, FirstColon(arg) - 1)
HeaderValue(arg) == SubSeq(arg, FirstColon(arg) + 1, Len(arg))
WellFormed(arg) == HasColon(arg) /\ HeaderName(arg) # <<>>
\* The map after the first n arguments, all well formed, one entry each.
RECURSIVE HeadersOf(_)
HeadersOf(n) ==
  IF n = 0 THEN {}
  ELSE MapPut(HeadersOf(n - 1), HeaderName(argv[n]), HeaderValue(argv[n]))

\* C15: in either client a -H argument without ':' or with an empty header
\* is rejected with the usage message and exit(1) and adds no header; every
\* other argument adds the one entry from the text before its first ':' to
\* the text after it; -H may be given several times.
C15_HeaderArgValidated ==
  /\ opt_status \in {"parsing", "done", "usage"}
  /\ \A k \in 1..(optind - 1) : WellFormed(argv[k])
  /\ http_headers = HeadersOf(optind - 1)
  /\ opt_status = "usage" => optind <= Len(argv) /\ ~WellFormed(argv[optind])
  /\ opt_status = "done" => optind = Len(argv) + 1

\* ------------------------------------------------------- the sync client
\* simple_grpc_infer_client.cc: create the client, run one inference, check
\* the two outputs, print PASS; twice when -c was given (line 228).
NumElements == 16
OutputByteSize == 64
\* The first 16 elements of input0_data (line 244), the ones the loop at
\* line 337 reads, and input1_data (lines 239-243).
Input0 ==
  <<151647, 198, 56568, 99491, 99794, 100717, 103954, 105484, 3837, 100431,
    105182, 102889, 100348, 108167, 3837, 35946>>
Input1 == [k \in 1..NumElements |-> 1]

\* What the server may answer: the model draws each output's shape, datatype
\* and byte size from sets that hold the expected value and wrong ones.
Shapes == {<<1, NumElements>>, <<1, 8>>, <<2, NumElements>>, <<NumElements>>}
Datatypes == {"INT32", "FP32"}
ByteSizes == {OutputByteSize, 32}
ResultSet ==
  [shape : [Outputs -> Shapes], datatype : [Outputs -> Datatypes],
   byte_size : [Outputs -> ByteSizes]]
\* The values an element of an output may have.
Elements(k) == {Input0[k] + Input1[k], Input0[k] - Input1[k], 0}

\* Line 228.
NumRuns == IF test_use_cached_channel THEN 2 ELSE 1
\* Line 56 and line 66, the conditions under which the check passes.
ShapeOkRankOnly(shape) == Len(shape) = 2
ShapeOk(shape) == ~(Len(shape) # 2 \/ shape[1] # 1 \/ shape[2] # NumElements)
DatatypeOk(datatype) == datatype = "INT32"

\* The sync client after its command line: -c given or not.
InitSync ==
  /\ Declared
  /\ pc = "off"
  /\ OptsParsed
  /\ InputsBuilt
  /\ test_use_cached_channel \in BOOLEAN
  /\ run = 0
  /\ s_pc = "loop"
  /\ results = NoResults
  /\ output0_data = <<>>
  /\ output1_data = <<>>
  /\ s_status = "running"
  /\ s_err = ""
  /\ s_out = <<>>

\* FAIL_IF_ERR (lines 37-44), and the exit(1) of a failed check.
SyncExit(msg) ==
  /\ s_status' = "1"
  /\ s_err' = msg
  /\ UNCHANGED <<asyncvars, optvars, bufvars, test_use_cached_channel, run, s_pc, results,
                 output0_data, output1_data, s_out>>

\* Lines 229-234 and 376: the loop test; Create, or return 0.
SyncLoop ==
  /\ s_status = "running" /\ s_pc = "loop"
  /\ IF run < NumRuns
       THEN \/ /\ s_pc' = "infer"
               /\ UNCHANGED <<asyncvars, optvars, bufvars, test_use_cached_channel, run,
                              results, output0_data, output1_data, s_status,
                              s_err, s_out>>
            \/ SyncExit("unable to create grpc client")
       ELSE /\ s_status' = "0"
            /\ s_pc' = "returned"
            /\ UNCHANGED <<asyncvars, optvars, bufvars, test_use_cached_channel, run,
                           results, output0_data, output1_data, s_err, s_out>>

\* Lines 299-306: Infer returns the results, or fails.
SyncInfer ==
  /\ s_status = "running" /\ s_pc = "infer"
  /\ \/ /\ results' \in ResultSet
        /\ output0_data' = <<>>
        /\ output1_data' = <<>>
        /\ s_pc' = "validate0"
        /\ UNCHANGED <<asyncvars, optvars, bufvars, test_use_cached_channel, run,
                       s_status, s_err, s_out>>
     \/ SyncExit("unable to run model")

\* Lines 48-71, called at lines 309-310 for OUTPUT0 and then OUTPUT1.
ValidateShapeAndDatatype(name) ==
  /\ s_status = "running"
  /\ s_pc = (IF name = "OUTPUT0" THEN "validate0" ELSE "validate1")
  /\ \/ SyncExit("unable to get shape")
     \/ /\ ~ShapeOk(results.shape[name])
        /\ SyncExit("received incorrect shapes")
     \/ /\ ShapeOk(results.shape[name])
        /\ SyncExit("unable to get datatype")
     \/ /\ ShapeOk(results.shape[name]) /\ ~DatatypeOk(results.datatype[name])
        /\ SyncExit("received incorrect datatype")
     \/ /\ ShapeOk(results.shape[name]) /\ DatatypeOk(results.datatype[name])
        /\ s_pc' = (IF name = "OUTPUT0" THEN "validate1" ELSE "size0")
        /\ UNCHANGED <<asyncvars, optvars, bufvars, test_use_cached_channel, run, results,
                       output0_data, output1_data, s_status, s_err, s_out>>

\* Lines 313-323 (OUTPUT0) and 325-335 (OUTPUT1): RawData and the byte size.
CheckByteSize(name) ==
  /\ s_status = "running"
  /\ s_pc = (IF name = "OUTPUT0" THEN "size0" ELSE "size1")
  /\ \/ SyncExit("unable to get result data")
     \/ /\ results.byte_size[name] # OutputByteSize
        /\ SyncExit("received incorrect byte size")
     \/ /\ results.byte_size[name] = OutputByteSize
        /\ s_pc' = (IF name = "OUTPUT0" THEN "size1" ELSE "elems")
        /\ UNCHANGED <<asyncvars, optvars, bufvars, test_use_cached_channel, run, results,
                       output0_data, output1_data, s_status, s_err, s_out>>

\* Lines 337-351: one iteration of the loop over the elements, or its end.
\* The element of each output is fixed when the loop reads it.
CheckElement ==
  /\ s_status = "running" /\ s_pc = "elems"
  /\ IF Len(output0_data) < NumElements
       THEN LET k == Len(output0_data) + 1 IN
            \E o0 \in Elements(k), o1 \in Elements(k) :
              /\ output0_data' = Append(output0_data, o0)
              /\ output1_data' = Append(output1_data, o1)
              /\ IF Input0[k] + Input1[k] # o0
                   THEN s_status' = "1" /\ s_err' = "incorrect sum"
                   ELSE IF Input0[k] - Input1[k] # o1
                     THEN s_status' = "1" /\ s_err' = "incorrect difference"
                     ELSE UNCHANGED <<s_status, s_err>>
              /\ UNCHANGED <<asyncvars, optvars, bufvars, test_use_cached_channel, run,
                             s_pc, results, s_out>>
       ELSE /\ s_pc' = "stats"
            /\ UNCHANGED <<asyncvars, optvars, bufvars, test_use_cached_channel, run,
                           results, output0_data, output1_data, s_status, s_err,
                           s_out>>

\* Lines 353-375: the statistics and "PASS : Infer"; ++i.
SyncPass ==
  /\ s_status = "running" /\ s_pc = "stats"
  /\ s_out' = Append(s_out, "PASS : Infer")
  /\ run' = run + 1
  /\ s_pc' = "loop"
  /\ UNCHANGED <<asyncvars, optvars, bufvars, test_use_cached_channel, results,
                 output0_data, output1_data, s_status, s_err>>

NextSync ==
  \/ SyncLoop
  \/ SyncInfer
  \/ \E name \in Outputs : ValidateShapeAndDatatype(name)
  \/ \E name \in Outputs : CheckByteSize(name)
  \/ CheckElement
  \/ SyncPass
SpecSync == InitSync /\ [][NextSync]_vars

\* The checks in the order the code makes them, and what each one is to
\* reject according to the claim.
CheckOrder == <<"validate0", "validate1", "size0", "size1", "elems">>
ElementOk(k) ==
  /\ output0_data[k] = Input0[k] + Input1[k]
  /\ output1_data[k] = Input0[k] - Input1[k]
Violated(p) ==
  CASE p = "validate0" ->
         results.shape["OUTPUT0"] # <<1, 16>> \/ results.datatype["OUTPUT0"] # "INT32"
    [] p = "validate1" ->
         results.shape["OUTPUT1"] # <<1, 16>> \/ results.datatype["OUTPUT1"] # "INT32"
    [] p = "size0" -> results.byte_size["OUTPUT0"] # 64
    [] p = "size1" -> results.byte_size["OUTPUT1"] # 64
    [] p = "elems" -> \E k \in 1..Len(output0_data) : ~ElementOk(k)
    [] OTHER -> FALSE
\* The results are in every respect what the claim asks for.
ResultAsClaimed ==
  /\ \A n \in Outputs :
       /\ results.shape[n] = <<1, 16>>
       /\ results.datatype[n] = "INT32"
       /\ results.byte_size[n] = 64
  /\ Len(output0_data) = 16 /\ Len(output1_data) = 16
  /\ \A k \in 1..16 : ElementOk(k)
CheckMessages ==
  {"received incorrect shapes", "received incorrect datatype",
   "received incorrect byte size", "incorrect sum", "incorrect difference"}
Position(p) == CHOOSE n \in 1..Len(CheckOrder) : CheckOrder[n] = p

\* C17: the sync client prints "PASS : Infer" for a run only if both outputs
\* have shape [1,16], datatype INT32 and byte size 64 and every element of
\* OUTPUT0 is the sum and of OUTPUT1 the difference of the inputs' elements;
\* at the first check that is violated it exits with status 1, without the
\* PASS of that run; and it makes two runs when -c was given, one otherwise.
C17_PassOnlyIfValidated ==
  /\ Len(s_out) = run /\ \A k \in DOMAIN s_out : s_out[k] = "PASS : Infer"
  /\ run <= (IF test_use_cached_channel THEN 2 ELSE 1)
  /\ s_status = "0" => run = (IF test_use_cached_channel THEN 2 ELSE 1)
  /\ (s_pc = "stats" \/ (run >= 1 /\ s_pc \in {"loop", "infer", "returned"}))
       => ResultAsClaimed
  /\ s_pc \in {"validate0", "validate1", "size0", "size1", "elems"} =>
       /\ \A n \in 1..(Position(s_pc) - 1) : ~Violated(CheckOrder[n])
       /\ (s_status = "1" /\ s_err \in CheckMessages) => Violated(s_pc)
       /\ \A k \in 1..(Len(output0_data) - 1) : ElementOk(k)
       /\ (s_status = "running" /\ s_pc = "elems") => ~Violated(s_pc)
  /\ s_status = "1" => s_pc \notin {"stats", "returned"}

\* -c was given and both runs have passed.
C17_Witness ==
  /\ s_status = "0" /\ test_use_cached_channel
  /\ s_out = <<"PASS : Infer", "PASS : Infer">> /\ ResultAsClaimed

\* ------------------------------------------- the input tensors' buffers
\* Lines 273-392 of the async client: each tensor is created and given its
\* data with AppendRaw inside a block of its own; a vector declared in the
\* block is destroyed where the block ends.
InitInputs ==
  /\ Declared
  /\ pc = "build"
  /\ OptsParsed
  /\ SyncOff
  /\ alive = {"input0_data"}
  /\ attached = {}

\* The tensors whose AppendRaw has been called.
Built == Cardinality(attached)
\* No block is open: every vector declared in a block has been destroyed.
OutsideBlocks == \A n \in 1..Len(Tensors) : Tensors[n].local => Tensors[n].buffer \notin alive

\* The next block up to its AppendRaw (for input_ids lines 280-292): the
\* block's vector is declared and the tensor records a pointer to its
\* elements; InferInput::Create or AppendRaw may fail (FAIL_IF_ERR).
BlockAppend ==
  /\ Running /\ pc = "build" /\ Built < Len(Tensors) /\ OutsideBlocks
  /\ LET T == Tensors[Built + 1] IN
       \/ /\ alive' = alive \cup {T.buffer}
          /\ attached' = attached \cup {<<T.name, T.buffer>>}
          /\ UNCHANGED <<status, err>>
       \/ /\ status' = "1"
          /\ err' = err \cup {"unable to set data"}
          /\ UNCHANGED <<alive, attached>>
  /\ UNCHANGED <<repeat_cnt, i, done_cnt, callback_invoked, result_placeholder,
                 mtx, pc, out, inflight, deliveries, cb_pc, result_ptr, tmp,
                 called, freed, outcome, initialised, optvars, syncvars>>

\* The closing brace of a block (lines 312, 328, 344, 360, 376, 392): the
\* vector declared in it is destroyed; the tensor, owned by a shared_ptr of
\* main's scope (lines 273-279), lives on with its pointer.
BlockEnd ==
  /\ Running /\ pc = "build" /\ ~OutsideBlocks
  /\ alive' = {b \in alive : \A n \in 1..Len(Tensors) :
                               Tensors[n].buffer = b => ~Tensors[n].local}
  /\ UNCHANGED <<asyncvars, optvars, syncvars, attached>>

\* Lines 394-420: the requested output, the options, the vector of inputs,
\* mtx, cv and the counters; main is at the submission loop.
BuildDone ==
  /\ Running /\ pc = "build" /\ Built = Len(Tensors) /\ OutsideBlocks
  /\ \/ /\ pc' = "submit"
        /\ UNCHANGED <<status, err>>
     \/ /\ status' = "1"
        /\ err' = err \cup {"unable to get output"}
        /\ UNCHANGED pc
  /\ UNCHANGED <<repeat_cnt, i, done_cnt, callback_invoked, result_placeholder,
                 mtx, out, inflight, deliveries, cb_pc, result_ptr, tmp, called,
                 freed, outcome, initialised, optvars, syncvars, bufvars>>

NextInputs == BlockAppend \/ BlockEnd \/ BuildDone \/ Next
SpecInputs == InitInputs /\ [][NextInputs]_vars

\* The buffers the tensors of the submitted vector point into.
SubmittedBuffers == {e[2] : e \in {a \in attached : a[1] \in InputsVector}}

\* C20: with AppendRaw keeping a pointer to the caller's buffer, every buffer
\* of a tensor given to AsyncInfer (input_ids, input_lengths,
\* request_output_len, end_id, pad_id) is alive when AsyncInfer is called and
\* as long as the request is in flight; no request is in flight with a tensor
\* whose buffer's block has ended.
C20_BuffersAliveWhileInFlight ==
  inflight # {} => SubmittedBuffers \subseteq alive

====
